---- MODULE Spec2Model ----
(***************************************************************************)
(* A model of CATMAID's SkeletonSourceManager                              *)
(* (django/applications/catmaid/static/libs/catmaid/                       *)
(* skeleton_source_manager.js): the table of skeleton sources, the sweep   *)
(* of linkTarget references on removal, the 'select' controls that list    *)
(* the sources, and the broadcasts to the registered sources.              *)
(*                                                                         *)
(* Strings are sequences of one-character strings, so that replace,        *)
(* indexOf, substring and sort are computed as the JavaScript computes     *)
(* them.                                                                   *)
(***************************************************************************)
EXTENDS Integers, Sequences, FiniteSets, TLC

VARIABLES
  sources,     \* this.sources: the own properties of the table, in insertion order
  linkTarget,  \* the linkTarget field of every source object
  controls,    \* the 'select' elements of the document, in document order
  selection,   \* every source's own selection of skeleton ids
  listeners,   \* the callbacks registered for EVENT_SKELETON_DELETED
  calls,       \* the methods of sources invoked by the last operation, in order
  ret,         \* the value returned by the last operation
  raised,      \* TRUE when the last operation ended by a TypeError
  notices,     \* the messages the last operation wrote (console.log, growlAlert)
  last         \* the last operation and its arguments

vars == <<last, raised, sources, linkTarget, controls, selection, listeners, calls, notices, ret>>

----------------------------------------------------------------------------
(* Bounds of the model *)

MaxSources == 2     \* sources registered at the same time
MaxLinks == 1       \* sources holding a linkTarget at the same time
MaxControls == 1    \* 'select' elements in the document
MaxSelected == 2    \* skeletons selected, over all sources

----------------------------------------------------------------------------
(* Strings *)

Str_A_B == <<"A", " ", "B">>
Str_AhB == <<"A", "-", "B">>
Str_Active == <<"A", "c", "t", "i", "v", "e", " ", "s", "k", "e", "l", "e", "t", "o", "n">>
Str_None == <<"N", "o", "n", "e">>
Str_push == <<"-", "p", "u", "s", "h", "-">>
Str_valueOf == <<"v", "a", "l", "u", "e", "O", "f">>
Str_prefix == <<"s", "k", "e", "l", "e", "t", "o", "n", "-", "s", "o", "u", "r", "c", "e",
                "-", "s", "e", "l", "e", "c", "t", "-">>

\* The UTF-16 code unit of the characters that occur in names.
CharCode ==
  (" " :> 32) @@ ("-" :> 45) @@ ("1" :> 49) @@ ("A" :> 65) @@ ("B" :> 66) @@ ("N" :> 78)
  @@ ("Z" :> 90) @@ ("c" :> 99) @@ ("e" :> 101) @@ ("h" :> 104) @@ ("i" :> 105)
  @@ ("k" :> 107) @@ ("l" :> 108) @@ ("n" :> 110) @@ ("o" :> 111) @@ ("p" :> 112)
  @@ ("s" :> 115) @@ ("t" :> 116) @@ ("u" :> 117) @@ ("v" :> 118)

Min(S) == CHOOSE x \in S : \A y \in S : x <= y

\* String.prototype.replace(/c/g, d)
ReplaceAll(s, c, d) == [i \in 1..Len(s) |-> IF s[i] = c THEN d ELSE s[i]]

\* String.prototype.indexOf(pat): 0-based, -1 when pat does not occur
IndexOf(s, pat) ==
  LET hits == {i \in 0..(Len(s) - Len(pat)) : SubSeq(s, i + 1, i + Len(pat)) = pat}
  IN IF hits = {} THEN -1 ELSE Min(hits)

\* String.prototype.substring(a, b): arguments clamped to 0..length, swapped if a > b
Clamp(x, n) == IF x < 0 THEN 0 ELSE IF x > n THEN n ELSE x
Substring(s, a, b) ==
  LET ca == Clamp(a, Len(s))
      cb == Clamp(b, Len(s))
      lo == IF ca <= cb THEN ca ELSE cb
      hi == IF ca <= cb THEN cb ELSE ca
  IN SubSeq(s, lo + 1, hi)

\* The order of Array.prototype.sort() without a comparator: by code units,
\* a proper prefix before the longer string.
StrLess(a, b) ==
  LET diff == {i \in 1..Len(a) : i > Len(b) \/ a[i] # b[i]}
  IN IF diff = {} THEN Len(a) < Len(b)
     ELSE LET i == Min(diff) IN i <= Len(b) /\ CharCode[a[i]] < CharCode[b[i]]

RECURSIVE Insert(_, _)
Insert(sorted, x) ==
  IF sorted = <<>> THEN <<x>>
  ELSE IF StrLess(x, Head(sorted)) THEN <<x>> \o sorted
  ELSE <<Head(sorted)>> \o Insert(Tail(sorted), x)

RECURSIVE Sort(_)
Sort(s) == IF s = <<>> THEN <<>> ELSE Insert(Sort(SubSeq(s, 1, Len(s) - 1)), s[Len(s)])

----------------------------------------------------------------------------
(* The source objects *)

Sources == {"s1", "s2", "s3", "s4"}
Undefined == "undefined"
Null == <<"null">>
ProtoMember == "Object.prototype member"

\* source.getName(): s1 and s2 are two objects of the same name.
getName(s) ==
  CASE s = "s1" -> Str_A_B
    [] s = "s2" -> Str_A_B
    [] s = "s3" -> Str_AhB
    [] s = "s4" -> Str_Active

\* typeof(source['setVisible']) === 'function'
hasSetVisible(s) == s \in {"s1", "s3"}

Names == {getName(s) : s \in Sources}

\* Property names every object literal inherits from Object.prototype.
ProtoNames == {Str_valueOf}

\* Skeleton ids: two ids tell an id that is in a selection from one that is not.
SkeletonIds == {1, 2}

----------------------------------------------------------------------------
(* this.sources: an object literal used as a table *)

Keys(t) == [i \in 1..Len(t) |-> t[i].name]

HasOwn(t, n) == \E i \in 1..Len(t) : t[i].name = n

\* t[n]: the own property, or else what the prototype chain of {} holds
Lookup(t, n) ==
  IF HasOwn(t, n) THEN t[CHOOSE i \in 1..Len(t) : t[i].name = n].source
  ELSE IF n \in ProtoNames THEN ProtoMember
  ELSE Undefined

\* t[n] = s: an existing key keeps its place, a new key comes last
Put(t, n, s) ==
  IF HasOwn(t, n)
  THEN [i \in 1..Len(t) |-> IF t[i].name = n THEN [name |-> n, source |-> s] ELSE t[i]]
  ELSE Append(t, [name |-> n, source |-> s])

\* delete t[n]
\* A delete that leaves the entry in place
KeepEntry(t, n) == t

IsNot(n, e) == e.name # n
Delete(t, n) == SelectSeq(t, LAMBDA e : IsNot(n, e))

Registered(t, s) == \E i \in 1..Len(t) : t[i].source = s

----------------------------------------------------------------------------
(* HTMLSelectElement: a drop-down (size 1, not multiple) 'select' element.  *)
(* An option is modelled by its value; new Option(name, name) has the name  *)
(* as text and as value.  owner records the name of the source the element  *)
(* was created for.                                                         *)

NewSelect(id, owner) == [id |-> id, options |-> <<>>, selectedIndex |-> -1, owner |-> owner]

\* select.options.add(option): when no option is selected, the first option
\* of the list becomes the selected one
OptionsAdd(sel, v) ==
  [sel EXCEPT !.options = Append(sel.options, v),
              !.selectedIndex = IF sel.selectedIndex = -1 THEN 0 ELSE sel.selectedIndex]

\* select.selectedIndex = i: an index that names no option deselects all
SetSelectedIndex(sel, i) ==
  [sel EXCEPT !.selectedIndex = IF 0 <= i /\ i < Len(sel.options) THEN i ELSE -1]

\* select.options.length = n, n <= length: the options from n on are removed;
\* when the selected option is removed, the first remaining one is selected
SetOptionsLength(sel, n) ==
  [sel EXCEPT !.options = SubSeq(sel.options, 1, n),
              !.selectedIndex = IF sel.selectedIndex < n THEN sel.selectedIndex
                                ELSE IF n > 0 THEN 0 ELSE -1]

\* $(select).val(): the value of the selected option, null when there is none
Val(sel) == IF sel.selectedIndex = -1 THEN Null ELSE sel.options[sel.selectedIndex + 1]

----------------------------------------------------------------------------
(* SkeletonSourceManager: the 'select' controls *)

\* createOptions(): the values of the options, one per key, sorted
createOptions(t) == Sort(Keys(t))

createSelectID(s) == Str_prefix \o ReplaceAll(getName(s), " ", "-")

PrefixLen == 23

\* updateGUI, line 43: the name of the source, recovered from the element's id
NameOfID(id) ==
  LET ipush == IndexOf(id, Str_push)
  IN ReplaceAll(IF ipush = -1 THEN Substring(id, PrefixLen, Len(id))
                ELSE Substring(id, PrefixLen, ipush), "-", " ")

\* updateGUI, lines 48-52: the forEach over the options, from the i-th on
RECURSIVE RefillSelect(_, _, _, _, _)
RefillSelect(sel, opts, i, name, selected) ==
  IF i > Len(opts) THEN sel
  ELSE IF opts[i] = name THEN RefillSelect(sel, opts, i + 1, name, selected)
  ELSE LET added == OptionsAdd(sel, opts[i])
           marked == IF opts[i] = selected
                     THEN SetSelectedIndex(added, Len(added.options) - 1)
                     ELSE added
       IN RefillSelect(marked, opts, i + 1, name, selected)

\* updateGUI, line 45: select.options[selectedIndex] is undefined for a select
\* without options, and reading .value of it is a TypeError
UpdateRaises(sel) == Len(sel.options) = 0

\* updateGUI, lines 42-52: the callback of each(), for a select with options
UpdateSelect(sel, t) ==
  LET name == NameOfID(sel.id)
      selectedIndex == IF sel.selectedIndex = -1 THEN 0 ELSE sel.selectedIndex
      selected == sel.options[selectedIndex + 1]
      cut == SetOptionsLength(sel, IF sel.options[1] = Str_None THEN 1 ELSE 0)
      reset == SetSelectedIndex(cut, 0)
  IN RefillSelect(reset, createOptions(t), 1, name, selected)

\* updateGUI(): the selects in document order; a TypeError ends the loop and
\* leaves the later selects as they were
RECURSIVE UpdateFrom(_, _, _)
UpdateFrom(ctrls, i, t) ==
  IF i > Len(ctrls) THEN [controls |-> ctrls, raised |-> FALSE]
  ELSE IF UpdateRaises(ctrls[i]) THEN [controls |-> ctrls, raised |-> TRUE]
  ELSE UpdateFrom([ctrls EXCEPT ![i] = UpdateSelect(ctrls[i], t)], i + 1, t)

updateGUI(ctrls, t) == UpdateFrom(ctrls, 1, t)

\* createSelect, lines 64-67: the forEach; i is the 0-based index in the
\* list of all options, the own entry included
RECURSIVE FillSelect(_, _, _, _)
FillSelect(sel, opts, i, name) ==
  IF i >= Len(opts) THEN sel
  ELSE LET added == IF opts[i + 1] # name THEN OptionsAdd(sel, opts[i + 1]) ELSE sel
           marked == IF opts[i + 1] = Str_Active THEN SetSelectedIndex(added, i) ELSE added
       IN FillSelect(marked, opts, i + 1, name)

createSelect(t, s) ==
  FillSelect(NewSelect(createSelectID(s), getName(s)), createOptions(t), 0, getName(s))

\* createPushSelect, lines 76-78
RECURSIVE FillPushSelect(_, _, _, _)
FillPushSelect(sel, opts, i, name) ==
  IF i > Len(opts) THEN sel
  ELSE FillPushSelect(IF opts[i] # name THEN OptionsAdd(sel, opts[i]) ELSE sel,
                      opts, i + 1, name)

Suffixes == {<<"1">>}

createPushSelect(t, s, suffix) ==
  FillPushSelect(OptionsAdd(NewSelect(createSelectID(s) \o Str_push \o suffix, getName(s)),
                            Str_None),
                 createOptions(t), 1, getName(s))

----------------------------------------------------------------------------
(* SkeletonSourceManager: the table *)

\* add(source), line 18
add(t, s) == Put(t, getName(s), s)

\* remove(source), lines 24-27: the linkTarget of every source left in the table
Sweep(t, links, s) ==
  [q \in Sources |-> IF Registered(t, q) /\ links[q] = s THEN Undefined ELSE links[q]]

\* remove(source), lines 22-27: a TypeError of updateGUI ends remove before the sweep;
\* atRebuild is the linkTarget of every source at the time updateGUI is called
remove(t, links, ctrls, s) ==
  LET t1 == Delete(t, getName(s))
      gui == updateGUI(ctrls, t1)
  IN [sources |-> t1,
      atRebuild |-> links,
      controls |-> gui.controls,
      linkTarget |-> IF gui.raised THEN links ELSE Sweep(t1, links, s),
      raised |-> gui.raised]

\* getSource(name), line 91
getSource(t, n) == Lookup(t, n)

----------------------------------------------------------------------------
(* The sources' side of the calls: what a source does with a call is its    *)
(* own code; the registry relies on the contract that removeSkeletons       *)
(* drops the given ids from the selection and that hasSkeleton answers for  *)
(* the selection.                                                           *)

Call(s, method, args) == [target |-> s, method |-> method, args |-> args]

hasSkeleton(sel, s, skid) == skid \in sel[s]

Elements(a) == {a[i] : i \in 1..Len(a)}

\* The selections after the calls cs have been served.
Served(sel, cs) ==
  [s \in Sources |->
     sel[s] \ UNION {Elements(cs[i].args[1]) :
                       i \in {j \in 1..Len(cs) : cs[j].target = s
                                                  /\ cs[j].method = "removeSkeletons"}}]

----------------------------------------------------------------------------
(* SkeletonSourceManager: the broadcasts and findDifference *)

\* Object.keys(models): integer-like keys, in ascending order
RECURSIVE Ascending(_)
Ascending(S) == IF S = {} THEN <<>> ELSE <<Min(S)>> \o Ascending(S \ {Min(S)})

\* findDifference, lines 122-125: the reduce, from the i-th key on
RECURSIVE DiffPresentFrom(_, _, _, _, _, _)
DiffPresentFrom(o, ks, i, sel, s, models) ==
  IF i > Len(ks) THEN o
  ELSE DiffPresentFrom(IF hasSkeleton(sel, s, ks[i]) THEN (ks[i] :> models[ks[i]]) @@ o ELSE o,
                       ks, i + 1, sel, s, models)

RECURSIVE DiffFrom(_, _, _, _, _, _)
DiffFrom(o, ks, i, sel, s, models) ==
  IF i > Len(ks) THEN o
  ELSE DiffFrom(IF ~hasSkeleton(sel, s, ks[i]) THEN (ks[i] :> models[ks[i]]) @@ o ELSE o,
                ks, i + 1, sel, s, models)

findDifferencePresent(sel, s, models) ==
  DiffPresentFrom(<<>>, Ascending(DOMAIN models), 1, sel, s, models)

findDifference(sel, s, models) == DiffFrom(<<>>, Ascending(DOMAIN models), 1, sel, s, models)

\* highlight, lines 129-133: the forEach over the keys, from the i-th on
RECURSIVE HighlightFrom(_, _, _, _)
HighlightFrom(t, i, caller, skeleton_id) ==
  IF i > Len(t) THEN <<>>
  ELSE LET source == Lookup(t, Keys(t)[i])
       IN (IF source = caller THEN <<>> ELSE <<Call(source, "highlight", <<skeleton_id>>)>>)
          \o HighlightFrom(t, i + 1, caller, skeleton_id)

RECURSIVE HighlightByNameFrom(_, _, _, _)
HighlightByNameFrom(t, i, caller, skeleton_id) ==
  IF i > Len(t) THEN <<>>
  ELSE LET source == Lookup(t, Keys(t)[i])
       IN (IF getName(source) = getName(caller) THEN <<>>
           ELSE <<Call(source, "highlight", <<skeleton_id>>)>>)
          \o HighlightByNameFrom(t, i + 1, caller, skeleton_id)

highlightByName(t, caller, skeleton_id) == HighlightByNameFrom(t, 1, caller, skeleton_id)

highlight(t, caller, skeleton_id) == HighlightFrom(t, 1, caller, skeleton_id)

\* removeSkeletons, lines 137-139
RECURSIVE RemoveSkeletonsFrom(_, _, _)
RemoveSkeletonsFrom(t, i, skeleton_ids) ==
  IF i > Len(t) THEN <<>>
  ELSE <<Call(Lookup(t, Keys(t)[i]), "removeSkeletons", <<skeleton_ids>>)>>
       \o RemoveSkeletonsFrom(t, i + 1, skeleton_ids)

removeSkeletonsButFirst(t, skeleton_ids) == RemoveSkeletonsFrom(t, 2, skeleton_ids)

removeSkeletons(t, skeleton_ids) == RemoveSkeletonsFrom(t, 1, skeleton_ids)

\* setVisible, lines 143-148
RECURSIVE SetVisibleAllFrom(_, _, _, _)
SetVisibleAllFrom(t, i, skeleton_ids, visible) ==
  IF i > Len(t) THEN <<>>
  ELSE <<Call(Lookup(t, Keys(t)[i]), "setVisible", <<skeleton_ids, visible>>)>>
       \o SetVisibleAllFrom(t, i + 1, skeleton_ids, visible)

RECURSIVE SetVisibleFrom(_, _, _, _)
SetVisibleFrom(t, i, skeleton_ids, visible) ==
  IF i > Len(t) THEN <<>>
  ELSE LET source == Lookup(t, Keys(t)[i])
       IN (IF hasSetVisible(source)
           THEN <<Call(source, "setVisible", <<skeleton_ids, visible>>)>>
           ELSE <<>>)
          \o SetVisibleFrom(t, i + 1, skeleton_ids, visible)

setVisibleAll(t, skeleton_ids, visible) == SetVisibleAllFrom(t, 1, skeleton_ids, visible)

setVisible(t, skeleton_ids, visible) == SetVisibleFrom(t, 1, skeleton_ids, visible)

\* The callback of line 12: function(skeletonID) { this.removeSkeletons([skeletonID]); },
\* called with the manager as this, the third argument of on()
onSkeletonDeletedUnbound(t, skeletonID) == <<>>

onSkeletonDeleted(t, skeletonID) == removeSkeletons(t, <<skeletonID>>)

\* neuronController.trigger(EVENT_SKELETON_DELETED, skeletonID): every callback
\* registered for the event is called, in the order of registration
RECURSIVE trigger(_, _, _, _)
trigger(ls, i, t, skeletonID) ==
  IF i > Len(ls) THEN <<>>
  ELSE (IF ls[i].event = "EVENT_SKELETON_DELETED" THEN onSkeletonDeleted(t, skeletonID)
        ELSE <<>>)
       \o trigger(ls, i + 1, t, skeletonID)

----------------------------------------------------------------------------
(* SkeletonSourceManager: the source selected in a 'select' control *)

\* $('#' + id).val(): of the first element of the document with that id;
\* undefined when there is none
ValById(ctrls, id) ==
  LET hits == {i \in 1..Len(ctrls) : ctrls[i].id = id}
  IN IF hits = {} THEN Null ELSE Val(ctrls[Min(hits)])

\* getSelectedSource(ref_source), line 83
getSelectedSource(t, ctrls, ref) == Lookup(t, ValById(ctrls, createSelectID(ref)))

\* getSelectedPushSource(ref_source, suffix), line 87
getSelectedPushSource(t, ctrls, ref, suffix) ==
  Lookup(t, ValById(ctrls, createSelectID(ref) \o Str_push \o suffix))

\* source.getSelectedSkeletons(): the selection as an array of ids
SourceSkeletons(sel, s) == Ascending(sel[s])

\* source.getSelectedSkeletonModels(): the selection as an object, id to model
SourceModels(sel, s) == [k \in sel[s] |-> "m1"]

\* x.length: of an array the number of elements, of an object that maps
\* ids to models undefined
ArrayLength(a) == [defined |-> TRUE, value |-> Len(a)]
ObjectLength(o) == [defined |-> FALSE, value |-> 0]

\* 0 === x.length
IsZero(l) == l.defined /\ l.value = 0

Notice(channel, text, name) == [channel |-> channel, text |-> text, name |-> name]

NoSourceFound(ref) ==
  [ret |-> <<>>,
   calls |-> <<Call(ref, "getName", <<>>), Call(ref, "getName", <<>>)>>,
   notices |-> <<Notice("console.log", "No source found for reference source", getName(ref))>>,
   raised |-> FALSE]

\* A member of Object.prototype is no source: calling getSelectedSkeletons
\* or getSelectedSkeletonModels of it is a TypeError
NotASource(ref) ==
  [ret |-> <<>>, calls |-> <<Call(ref, "getName", <<>>)>>, notices |-> <<>>, raised |-> TRUE]

\* getSelectedSkeletons(ref_source), lines 95-104
getSelectedSkeletons(t, ctrls, sel, ref) ==
  LET source == getSelectedSource(t, ctrls, ref)
  IN IF source = Undefined THEN NoSourceFound(ref)
     ELSE IF source = ProtoMember THEN NotASource(ref)
     ELSE LET skeletons == SourceSkeletons(sel, source)
              empty == IsZero(ArrayLength(skeletons))
          IN [ret |-> skeletons,
              calls |-> <<Call(ref, "getName", <<>>), Call(source, "getSelectedSkeletons", <<>>)>>
                        \o (IF empty THEN <<Call(source, "getName", <<>>)>> ELSE <<>>),
              notices |-> IF empty
                          THEN <<Notice("growlAlert", "No skeletons available at", getName(source))>>
                          ELSE <<>>,
              raised |-> FALSE]

\* getSelectedSkeletonModels(ref_source), lines 108-117
getSelectedSkeletonModels(t, ctrls, sel, ref) ==
  LET source == getSelectedSource(t, ctrls, ref)
  IN IF source = Undefined THEN NoSourceFound(ref)
     ELSE IF source = ProtoMember THEN NotASource(ref)
     ELSE LET models == SourceModels(sel, source)
              empty == IsZero(ObjectLength(models))
          IN [ret |-> models,
              calls |-> <<Call(ref, "getName", <<>>),
                          Call(source, "getSelectedSkeletonModels", <<>>)>>
                        \o (IF empty THEN <<Call(source, "getName", <<>>)>> ELSE <<>>),
              notices |-> IF empty
                          THEN <<Notice("growlAlert", "No skeletons selected at", getName(source))>>
                          ELSE <<>>,
              raised |-> FALSE]

----------------------------------------------------------------------------
(* The state after construction, lines 8-12 *)

Handler == [event |-> "EVENT_SKELETON_DELETED", callback |-> "removeSkeletons([skeletonID])"]

NoLast == [op |-> "new", args |-> <<>>]

Init ==
  /\ sources = <<>>
  /\ linkTarget = [s \in Sources |-> Undefined]
  /\ controls = <<>>
  /\ selection = [s \in Sources |-> {}]
  /\ listeners = <<Handler>>
  /\ calls = <<>>
  /\ notices = <<>>
  /\ ret = Undefined
  /\ raised = FALSE
  /\ last = NoLast

Links(links) == {q \in Sources : links[q] # Undefined}

----------------------------------------------------------------------------
(* Operations on the table and the controls *)

Add(s) ==
  /\ HasOwn(sources, getName(s)) \/ Len(sources) < MaxSources
  /\ sources' = add(sources, s)
  /\ calls' = <<Call(s, "getName", <<>>)>>
  /\ notices' = <<>>
  /\ ret' = Undefined
  /\ raised' = FALSE
  /\ last' = [op |-> "add", args |-> <<s, Registered(sources, s)>>]
  /\ UNCHANGED <<linkTarget, controls, selection, listeners>>

Remove(s) ==
  LET r == remove(sources, linkTarget, controls, s)
  IN /\ sources' = r.sources
     /\ linkTarget' = r.linkTarget
     /\ controls' = r.controls
     /\ raised' = r.raised
     /\ calls' = <<Call(s, "getName", <<>>)>>
     /\ notices' = <<>>
     /\ ret' = Undefined
     /\ last' = [op |-> "remove", args |-> <<s, Registered(sources, s)>>]
     /\ UNCHANGED <<selection, listeners>>

\* A source sets its linkTarget to a source that is registered.
SetLink(q, p) ==
  /\ q # p
  /\ Registered(sources, p)
  /\ q \in Links(linkTarget) \/ Cardinality(Links(linkTarget)) < MaxLinks
  /\ linkTarget' = [linkTarget EXCEPT ![q] = p]
  /\ calls' = <<>>
  /\ notices' = <<>>
  /\ ret' = Undefined
  /\ raised' = FALSE
  /\ last' = [op |-> "setLink", args |-> <<q, p>>]
  /\ UNCHANGED <<sources, controls, selection, listeners>>

\* createSelect(source); the caller puts the element into the document.
CreateSelect(s) ==
  /\ Len(controls) < MaxControls
  /\ controls' = Append(controls, createSelect(sources, s))
  /\ calls' = <<Call(s, "getName", <<>>), Call(s, "getName", <<>>)>>
  /\ notices' = <<>>
  /\ ret' = Undefined
  /\ raised' = FALSE
  /\ last' = [op |-> "createSelect", args |-> <<s>>]
  /\ UNCHANGED <<sources, linkTarget, selection, listeners>>

\* createPushSelect(source, suffix); the caller puts the element into the document.
CreatePushSelect(s, suffix) ==
  /\ Len(controls) < MaxControls
  /\ controls' = Append(controls, createPushSelect(sources, s, suffix))
  /\ calls' = <<Call(s, "getName", <<>>), Call(s, "getName", <<>>)>>
  /\ notices' = <<>>
  /\ ret' = Undefined
  /\ raised' = FALSE
  /\ last' = [op |-> "createPushSelect", args |-> <<s, suffix>>]
  /\ UNCHANGED <<sources, linkTarget, selection, listeners>>

\* A widget is closed: its element leaves the document.
DropSelect(i) ==
  /\ i \in 1..Len(controls)
  /\ controls' = SubSeq(controls, 1, i - 1) \o SubSeq(controls, i + 1, Len(controls))
  /\ calls' = <<>>
  /\ notices' = <<>>
  /\ ret' = Undefined
  /\ raised' = FALSE
  /\ last' = [op |-> "dropSelect", args |-> <<i>>]
  /\ UNCHANGED <<sources, linkTarget, selection, listeners>>

GetSource(n) ==
  /\ notices' = <<>>
  /\ ret' = getSource(sources, n)
  /\ calls' = <<>>
  /\ raised' = FALSE
  /\ last' = [op |-> "getSource", args |-> <<n>>]
  /\ UNCHANGED <<sources, linkTarget, controls, selection, listeners>>

Next ==
  \/ \E s \in Sources : Add(s)
  \/ \E s \in Sources : Remove(s)
  \/ \E q, p \in Sources : SetLink(q, p)
  \/ \E s \in Sources : CreateSelect(s)
  \/ \E s \in Sources, suffix \in Suffixes : CreatePushSelect(s, suffix)
  \/ \E i \in 1..MaxControls : DropSelect(i)
  \/ \E n \in Names \cup ProtoNames : GetSource(n)

Spec == Init /\ [][Next]_vars

----------------------------------------------------------------------------
(* Broadcasts, the deletion event and findDifference *)

Selected(sel) == {p \in Sources \X SkeletonIds : p[2] \in sel[p[1]]}

\* Arrays of skeleton ids, as the callers of the broadcasts pass them
IdArrays ==
  {<<>>} \cup {<<i>> : i \in SkeletonIds}
         \cup {p \in SkeletonIds \X SkeletonIds : p[1] # p[2]}

ModelValues == {"m1", "m2"}

\* Mappings from skeleton id to model
Models == UNION {[D -> ModelValues] : D \in SUBSET SkeletonIds}

\* The sources that hold one of the ids
Holders(sel, ids) == {s \in Sources : \E i \in 1..Len(ids) : hasSkeleton(sel, s, ids[i])}

\* A source appends a skeleton to its own selection.
SelectSkeleton(s, skid) ==
  /\ skid \notin selection[s]
  /\ Cardinality(Selected(selection)) < MaxSelected
  /\ selection' = [selection EXCEPT ![s] = @ \cup {skid}]
  /\ calls' = <<>>
  /\ notices' = <<>>
  /\ ret' = Undefined
  /\ raised' = FALSE
  /\ last' = [op |-> "select", args |-> <<s, skid>>]
  /\ UNCHANGED <<sources, linkTarget, controls, listeners>>

Highlight(caller, skid) ==
  /\ calls' = highlight(sources, caller, skid)
  /\ notices' = <<>>
  /\ ret' = Undefined
  /\ raised' = FALSE
  /\ last' = [op |-> "highlight", args |-> <<caller, skid>>]
  /\ UNCHANGED <<sources, linkTarget, controls, selection, listeners>>

RemoveSkeletons(ids) ==
  /\ calls' = removeSkeletons(sources, ids)
  /\ selection' = Served(selection, calls')
  /\ notices' = <<>>
  /\ ret' = Undefined
  /\ raised' = FALSE
  /\ last' = [op |-> "removeSkeletons", args |-> <<ids, Holders(selection, ids)>>]
  /\ UNCHANGED <<sources, linkTarget, controls, listeners>>

SetVisible(ids, visible) ==
  /\ calls' = setVisible(sources, ids, visible)
  /\ notices' = <<>>
  /\ ret' = Undefined
  /\ raised' = \E i \in 1..Len(calls') : ~hasSetVisible(calls'[i].target)
  /\ last' = [op |-> "setVisible", args |-> <<ids, visible>>]
  /\ UNCHANGED <<sources, linkTarget, controls, selection, listeners>>

\* The neuron controller announces that a skeleton was deleted.
SkeletonDeleted(skid) ==
  /\ calls' = trigger(listeners, 1, sources, skid)
  /\ selection' = Served(selection, calls')
  /\ notices' = <<>>
  /\ ret' = Undefined
  /\ raised' = FALSE
  /\ last' = [op |-> "skeletonDeleted", args |-> <<skid>>]
  /\ UNCHANGED <<sources, linkTarget, controls, listeners>>

FindDifference(s, models) ==
  /\ notices' = <<>>
  /\ ret' = findDifference(selection, s, models)
  /\ calls' = <<>>
  /\ raised' = FALSE
  /\ last' = [op |-> "findDifference", args |-> <<s, models>>]
  /\ UNCHANGED <<sources, linkTarget, controls, selection, listeners>>

NextBroadcast ==
  \/ \E s \in Sources : Add(s)
  \/ \E s \in Sources : Remove(s)
  \/ \E s \in Sources, skid \in SkeletonIds : SelectSkeleton(s, skid)
  \/ \E s \in Sources, skid \in SkeletonIds : Highlight(s, skid)
  \/ \E ids \in IdArrays : RemoveSkeletons(ids)
  \/ \E ids \in IdArrays, visible \in BOOLEAN : SetVisible(ids, visible)
  \/ \E skid \in SkeletonIds : SkeletonDeleted(skid)

SpecBroadcast == Init /\ [][NextBroadcast]_vars

NextDiff ==
  \/ \E s \in Sources, skid \in SkeletonIds : SelectSkeleton(s, skid)
  \/ \E s \in Sources, models \in Models : FindDifference(s, models)

SpecDiff == Init /\ [][NextDiff]_vars

----------------------------------------------------------------------------
(* The selected source and its skeletons *)

\* The user picks the k-th option of the i-th 'select' element.
UserSelect(i, k) ==
  /\ i \in 1..Len(controls)
  /\ k \in 0..(Len(controls[i].options) - 1)
  /\ k # controls[i].selectedIndex
  /\ controls' = [controls EXCEPT ![i] = SetSelectedIndex(@, k)]
  /\ calls' = <<>>
  /\ notices' = <<>>
  /\ ret' = Undefined
  /\ raised' = FALSE
  /\ last' = [op |-> "userSelect", args |-> <<i, k>>]
  /\ UNCHANGED <<sources, linkTarget, selection, listeners>>

GetSelectedSource(ref) ==
  /\ ret' = getSelectedSource(sources, controls, ref)
  /\ calls' = <<Call(ref, "getName", <<>>)>>
  /\ notices' = <<>>
  /\ raised' = FALSE
  /\ last' = [op |-> "getSelectedSource", args |-> <<ref>>]
  /\ UNCHANGED <<sources, linkTarget, controls, selection, listeners>>

GetSelectedPushSource(ref, suffix) ==
  /\ ret' = getSelectedPushSource(sources, controls, ref, suffix)
  /\ calls' = <<Call(ref, "getName", <<>>)>>
  /\ notices' = <<>>
  /\ raised' = FALSE
  /\ last' = [op |-> "getSelectedPushSource", args |-> <<ref, suffix>>]
  /\ UNCHANGED <<sources, linkTarget, controls, selection, listeners>>

GetSelectedSkeletons(ref) ==
  LET r == getSelectedSkeletons(sources, controls, selection, ref)
  IN /\ ret' = r.ret
     /\ calls' = r.calls
     /\ notices' = r.notices
     /\ raised' = r.raised
     /\ last' = [op |-> "getSelectedSkeletons", args |-> <<ref>>]
     /\ UNCHANGED <<sources, linkTarget, controls, selection, listeners>>

GetSelectedSkeletonModels(ref) ==
  LET r == getSelectedSkeletonModels(sources, controls, selection, ref)
  IN /\ ret' = r.ret
     /\ calls' = r.calls
     /\ notices' = r.notices
     /\ raised' = r.raised
     /\ last' = [op |-> "getSelectedSkeletonModels", args |-> <<ref>>]
     /\ UNCHANGED <<sources, linkTarget, controls, selection, listeners>>

NextSelected ==
  \/ \E s \in Sources : Add(s)
  \/ \E s \in Sources : Remove(s)
  \/ \E s \in Sources : CreateSelect(s)
  \/ \E i \in 1..MaxControls : DropSelect(i)
  \/ \E i \in 1..MaxControls, k \in 0..MaxSources : UserSelect(i, k)
  \/ \E s \in Sources : SelectSkeleton(s, 1)
  \/ \E s \in Sources : GetSelectedSkeletons(s)
  \/ \E s \in Sources : GetSelectedSkeletonModels(s)

SpecSelected == Init /\ [][NextSelected]_vars

----------------------------------------------------------------------------
(* A broadcast during which a source calls back into the manager: the source *)
(* at position 'at' of the keys answers the call by calling remove(victim),  *)
(* as a widget does that closes another widget.                              *)

Broadcasts == {"highlight", "removeSkeletons", "setVisible"}

\* The arguments the manager passes on, lines 132, 138, 146
BroadcastArgs(op) ==
  CASE op = "highlight" -> <<1>>
    [] op = "removeSkeletons" -> <<<<1>>>>
    [] op = "setVisible" -> <<<<1>>, TRUE>>

\* Whether the body of the forEach calls the source, lines 131, 138, 145
Delivers(op, source, caller) ==
  CASE op = "highlight" -> source # caller
    [] op = "removeSkeletons" -> TRUE
    [] op = "setVisible" -> hasSetVisible(source)

\* The forEach of lines 129, 137, 143 over the keys ks taken when the
\* broadcast began, from the i-th key on, with the table as it is by then.
\* this.sources[name] of a key that was deleted meanwhile is undefined, and
\* source.highlight, this.sources[name].removeSkeletons and
\* source['setVisible'] of undefined are TypeErrors, which end the forEach.
RECURSIVE BroadcastFrom(_, _, _, _, _, _, _)
BroadcastFrom(op, ks, i, st, caller, at, victim) ==
  IF i > Len(ks) \/ st.raised THEN st
  ELSE LET source == Lookup(st.sources, ks[i])
       IN IF source = Undefined THEN [st EXCEPT !.raised = TRUE]
          ELSE IF ~Delivers(op, source, caller)
          THEN BroadcastFrom(op, ks, i + 1, st, caller, at, victim)
          ELSE LET called == [st EXCEPT !.calls = @ \o <<Call(source, op, BroadcastArgs(op))>>]
                   r == remove(st.sources, st.linkTarget, st.controls, victim)
                   after == IF i # at THEN called
                            ELSE [called EXCEPT !.sources = r.sources,
                                                !.linkTarget = r.linkTarget,
                                                !.controls = r.controls,
                                                !.raised = r.raised,
                                                !.calls = @ \o <<Call(victim, "getName", <<>>)>>]
               IN BroadcastFrom(op, ks, i + 1, after, caller, at, victim)

broadcast(op, t, links, ctrls, caller, at, victim) ==
  BroadcastFrom(op, Keys(t), 1,
                [sources |-> t, linkTarget |-> links, controls |-> ctrls,
                 calls |-> <<>>, raised |-> FALSE],
                caller, at, victim)

ReentrantBroadcast(op, caller, at, victim) ==
  LET r == broadcast(op, sources, linkTarget, controls, caller, at, victim)
  IN /\ at \in 1..Len(sources)
     /\ sources' = r.sources
     /\ linkTarget' = r.linkTarget
     /\ controls' = r.controls
     /\ calls' = r.calls
     /\ selection' = Served(selection, r.calls)
     /\ raised' = r.raised
     /\ notices' = <<>>
     /\ ret' = Undefined
     /\ last' = [op |-> "broadcast", args |-> <<op, caller, at, victim, sources>>]
     /\ UNCHANGED listeners

NextReentrant ==
  \/ \E s \in Sources : Add(s)
  \/ \E s \in Sources : Remove(s)
  \/ \E op \in Broadcasts, caller \in Sources, at \in 1..MaxSources, victim \in Sources :
       ReentrantBroadcast(op, caller, at, victim)

SpecReentrant == Init /\ [][NextReentrant]_vars

----------------------------------------------------------------------------
(* The operations a removed source could still be reached by *)

\* A source creates its 'select' element while it is registered.
CreateOwnSelect(s) == Registered(sources, s) /\ CreateSelect(s)

\* Here the 'select' elements stay in the document.
NextRemoved ==
  \/ \E s \in Sources : Add(s)
  \/ \E s \in Sources : Remove(s)
  \/ \E s \in Sources : CreateOwnSelect(s)
  \/ \E n \in Names : GetSource(n)
  \/ \E s \in Sources : GetSelectedSource(s)
  \/ \E s \in Sources, suffix \in Suffixes : GetSelectedPushSource(s, suffix)
  \/ \E s \in Sources : GetSelectedSkeletons(s)
  \/ \E s \in Sources : GetSelectedSkeletonModels(s)
  \/ \E s \in Sources : Highlight(s, 1)
  \/ RemoveSkeletons(<<1>>)
  \/ SetVisible(<<1>>, TRUE)
  \/ SkeletonDeleted(1)

SpecRemoved == Init /\ [][NextRemoved]_vars

----------------------------------------------------------------------------
(* Properties of the table and of the linkTarget references *)

\* C1: after remove(P) of a registered source P, no source Q of the table
\* holds P as its linkTarget, whatever the 'select' elements of the document
\* are when remove is called.
C1_RemovalClearsLinks ==
  (last.op = "remove" /\ last.args[2]) =>
    \A q \in Sources : Registered(sources, q) => linkTarget[q] # last.args[1]

\* C2: no source of the table holds a linkTarget that is not in the table.
C2_NoDanglingLinkTarget ==
  \A q \in Sources :
    (Registered(sources, q) /\ linkTarget[q] # Undefined) => Registered(sources, linkTarget[q])

\* C3: the table holds at most one source per name; add(s) never raises and
\* makes s the entry of its name, and leaves the entries of the other names
\* alone; remove leaves the entries of the other names alone; getSource of a
\* name that has an entry returns the entry, and getSource of a name without
\* an entry returns undefined and does not raise.
C3_OnePerNameLastAdded ==
  [][/\ \A i, j \in 1..Len(sources') : sources'[i].name = sources'[j].name => i = j
     /\ last'.op = "add" =>
          /\ ~raised'
          /\ HasOwn(sources', getName(last'.args[1]))
          /\ \A n \in Names :
               HasOwn(sources', n) =>
                 getSource(sources', n) =
                   (IF n = getName(last'.args[1]) THEN last'.args[1] ELSE getSource(sources, n))
     /\ last'.op = "remove" =>
          \A n \in Names : HasOwn(sources', n) => getSource(sources', n) = getSource(sources, n)
     /\ last'.op = "getSource" =>
          /\ ~raised'
          /\ sources' = sources
          /\ ret' = (IF HasOwn(sources, last'.args[1])
                     THEN sources[CHOOSE i \in 1..Len(sources) :
                                    sources[i].name = last'.args[1]].source
                     ELSE Undefined)]_vars

\* C4: remove(P) of a source P that is not in the table changes neither the
\* table, nor a linkTarget, nor a 'select' element, and does not raise.
C4_RemoveUnregisteredIsNoOp ==
  [][(last'.op = "remove" /\ ~last'.args[2]) =>
       /\ sources' = sources
       /\ linkTarget' = linkTarget
       /\ controls' = controls
       /\ ~raised']_vars

\* C10: no 'select' element offers the name of the source it was created for.
C10_SelfExcluded ==
  \A i \in 1..Len(controls) :
    \A k \in 1..Len(controls[i].options) : controls[i].options[k] # controls[i].owner

----------------------------------------------------------------------------
(* Properties of findDifference and of the broadcasts *)

\* How often the call of method with args on source s occurs in cs
Count(cs, s, method, args) ==
  Cardinality({i \in 1..Len(cs) : cs[i] = Call(s, method, args)})

\* C5: findDifference(P, M) returns the mapping {k: M[k] | k in keys(M), not
\* P.hasSkeleton(k)} and changes neither a selection nor the table.
C5_DiffCorrect ==
  [][last'.op = "findDifference" =>
       LET P == last'.args[1]
           M == last'.args[2]
       IN /\ ret' = [k \in {k \in DOMAIN M : ~hasSkeleton(selection, P, k)} |-> M[k]]
          /\ ~raised'
          /\ UNCHANGED <<sources, selection, linkTarget, controls>>]_vars

\* findDifference has dropped a key that P holds and kept one that P does not hold.
C5_Witness ==
  /\ last.op = "findDifference"
  /\ \E k \in DOMAIN last.args[2] : k \in DOMAIN ret
  /\ \E k \in DOMAIN last.args[2] : k \notin DOMAIN ret /\ hasSkeleton(selection, last.args[1], k)

\* C6: highlight(caller, id) calls highlight(id) once on every source of the
\* table other than caller, never on caller, and calls nothing else.
C6_HighlightAllButCaller ==
  last.op = "highlight" =>
    LET caller == last.args[1]
        id == last.args[2]
    IN /\ \A s \in Sources :
            Count(calls, s, "highlight", <<id>>) =
              (IF Registered(sources, s) /\ s # caller THEN 1 ELSE 0)
       /\ \A i \in 1..Len(calls) : calls[i].method = "highlight" /\ calls[i].args = <<id>>
       /\ ~raised

\* highlight has been called by a registered source and has reached another one.
C6_Witness ==
  /\ last.op = "highlight"
  /\ Registered(sources, last.args[1])
  /\ Len(calls) >= 1

\* C7: removeSkeletons(S) calls removeSkeletons(S) on every source of the
\* table, and afterwards no source of the table holds an id of S.
C7_RemoveSkeletonsReachesAll ==
  last.op = "removeSkeletons" =>
    LET ids == last.args[1]
    IN /\ \A s \in Sources :
            Registered(sources, s) => Count(calls, s, "removeSkeletons", <<ids>>) >= 1
       /\ \A s \in Sources :
            Registered(sources, s) => \A i \in 1..Len(ids) : ~hasSkeleton(selection, s, ids[i])
       /\ ~raised

\* removeSkeletons has reached two sources, one of which held an id of S.
C7_Witness ==
  /\ last.op = "removeSkeletons"
  /\ Len(sources) >= 2
  /\ \E s \in last.args[2] : Registered(sources, s)

\* C8: setVisible(ids, visible) calls setVisible(ids, visible) on the sources
\* of the table that have a setVisible function, and on no other; it does not
\* raise on a source without one.
C8_SetVisibleProbes ==
  last.op = "setVisible" =>
    /\ \A s \in Sources :
         Count(calls, s, "setVisible", last.args) =
           (IF Registered(sources, s) /\ hasSetVisible(s) THEN 1 ELSE 0)
    /\ Len(calls) = Cardinality({s \in Sources : Registered(sources, s) /\ hasSetVisible(s)})
    /\ ~raised

\* setVisible has skipped a source without setVisible and called the next one.
C8_Witness ==
  /\ last.op = "setVisible"
  /\ Len(sources) >= 2
  /\ ~hasSetVisible(sources[1].source)
  /\ hasSetVisible(sources[2].source)
  /\ Len(calls) = 1

\* C9: the callback registered at construction stays registered, exactly once;
\* a deletion event for skeleton X calls removeSkeletons([X]) once on every
\* source that is in the table at the time of the event.
C9_DeletionEventBroadcast ==
  /\ listeners = <<Handler>>
  /\ last.op = "skeletonDeleted" =>
       /\ \A s \in Sources :
            Count(calls, s, "removeSkeletons", <<<<last.args[1]>>>>) =
              (IF Registered(sources, s) THEN 1 ELSE 0)
       /\ Len(calls) = Len(sources)

\* A deletion event has been broadcast to two sources.
C9_Witness ==
  /\ last.op = "skeletonDeleted"
  /\ Len(calls) >= 2

----------------------------------------------------------------------------
(* Properties of the 'select' controls *)

\* A push select carries the suffix in its id.
IsPush(c) == c.id # Str_prefix \o ReplaceAll(c.owner, " ", "-")

IsNotName(n, x) == x # n

\* What a control is to offer: the names of the table other than its own,
\* sorted, after the 'None' entry in a push select
Offer(c, t) ==
  (IF IsPush(c) THEN <<Str_None>> ELSE <<>>)
  \o SelectSeq(Sort(Keys(t)), LAMBDA x : IsNotName(c.owner, x))

\* C11: a rebuild keeps the selected entry of every control whose selected
\* name is still in the table, and selects the first entry of the control
\* otherwise.
C11_RebuildKeepsSelection ==
  [][last'.op = "remove" =>
       /\ Len(controls') = Len(controls)
       /\ \A i \in 1..Len(controls) :
            Val(controls[i]) # Null =>
              IF HasOwn(sources', Val(controls[i]))
              THEN Val(controls'[i]) = Val(controls[i])
              ELSE controls'[i].selectedIndex <= 0]_vars

\* C14: after add and after remove every control offers the names of the
\* table other than its own, sorted (after 'None' in a push select).
C14_RebuildAfterLifecycle ==
  last.op \in {"add", "remove"} =>
    \A i \in 1..Len(controls) : controls[i].options = Offer(controls[i], sources)

\* C15: when remove(P) calls updateGUI, no source of the table holds P as
\* its linkTarget any more.
C15_SweepBeforeRebuild ==
  [][last'.op = "remove" =>
       LET P == last'.args[1]
           r == remove(sources, linkTarget, controls, P)
       IN \A q \in Sources : Registered(r.sources, q) => r.atRebuild[q] # P]_vars

\* C18: remove, and the updateGUI it calls, does not raise, whatever the
\* 'select' elements of the document are.
C18_RebuildNeverRaises ==
  last.op = "remove" => ~raised

\* C19: two sources of the table with different names have different select
\* ids, and the name updateGUI recovers from the id of a control is the name
\* of the source the control was created for.
C19_SelectIdIdentifiesSource ==
  /\ \A p, q \in Sources :
       (Registered(sources, p) /\ Registered(sources, q) /\ getName(p) # getName(q))
         => createSelectID(p) # createSelectID(q)
  /\ \A i \in 1..Len(controls) : NameOfID(controls[i].id) = controls[i].owner

\* C20: createSelect(P) returns a control with 'Active skeleton' selected
\* when a source of that name is in the table and P has another name.
C20_ActiveSkeletonPreselected ==
  (/\ last.op = "createSelect"
   /\ HasOwn(sources, Str_Active)
   /\ getName(last.args[1]) # Str_Active)
    => Val(controls[Len(controls)]) = Str_Active

----------------------------------------------------------------------------
(* Properties of getSelectedSkeletons and getSelectedSkeletonModels *)

\* growlAlert shows its message in the page; console.log writes to the
\* developer console
UserVisible(n) == n.channel = "growlAlert"

SelectedGetters == {"getSelectedSkeletons", "getSelectedSkeletonModels"}

\* C12: when no source resolves for the reference source, both getters return
\* an empty collection, emit exactly one user-visible notice, do not raise and
\* call no method of a source other than getName of the reference source.
C12_MissGivesOneUserNotice ==
  (/\ last.op \in SelectedGetters
   /\ getSelectedSource(sources, controls, last.args[1]) = Undefined)
  => /\ ~raised
     /\ ret = <<>>
     /\ Len(notices) = 1
     /\ UserVisible(notices[1])
     /\ \A i \in 1..Len(calls) : calls[i] = Call(last.args[1], "getName", <<>>)

\* C13: when the source resolves and its selection is empty, both getters emit
\* the one 'no skeletons' notice, which differs from the notice of a miss, and
\* return an empty collection; when the selection is not empty they emit no
\* notice and return the selection of the source.
C13_EmptySelectionNotice ==
  LET source == getSelectedSource(sources, controls, last.args[1])
  IN (last.op \in SelectedGetters /\ source \in Sources)
     => /\ ~raised
        /\ IF selection[source] = {}
           THEN /\ Len(notices) = 1
                /\ UserVisible(notices[1])
                /\ notices[1].text \in {"No skeletons available at", "No skeletons selected at"}
                /\ notices[1].name = getName(source)
                /\ ret = <<>>
           ELSE /\ notices = <<>>
                /\ ret = IF last.op = "getSelectedSkeletons"
                         THEN SourceSkeletons(selection, source)
                         ELSE SourceModels(selection, source)

----------------------------------------------------------------------------
(* Properties of a broadcast that is re-entered *)

\* C16: a broadcast during which a source removes a source of the table that
\* has not been visited yet raises no error, and every other source that was
\* in the table when the broadcast began, and that the broadcast is for,
\* still receives the call.
C16_BroadcastRunsToCompletion ==
  last.op = "broadcast" =>
    LET op == last.args[1]
        caller == last.args[2]
        at == last.args[3]
        victim == last.args[4]
        snapshot == last.args[5]
        pos == {i \in 1..Len(snapshot) : Lookup(snapshot, Keys(snapshot)[i]) = victim}
    IN (/\ pos # {}
        /\ Min(pos) > at
        /\ Delivers(op, Lookup(snapshot, Keys(snapshot)[at]), caller))
       => /\ ~raised
          /\ \A i \in 1..Len(snapshot) :
               LET source == Lookup(snapshot, Keys(snapshot)[i])
               IN (source # victim /\ Delivers(op, source, caller))
                  => Count(calls, source, op, BroadcastArgs(op)) = 1
----------------------------------------------------------------------------
(* Properties of a source that was removed *)

\* The operations that look a source up and return it, lines 83, 87, 91
Lookups == {"getSource", "getSelectedSource", "getSelectedPushSource"}

\* The operations that mediate between sources
Mediations ==
  Lookups \cup {"getSelectedSkeletons", "getSelectedSkeletonModels",
                "highlight", "removeSkeletons", "setVisible", "skeletonDeleted"}

\* The source the caller of an operation passes and whose getName the
\* operation calls, lines 18, 22, 57
PassedSource(l) ==
  IF l.op \in {"add", "remove", "createSelect", "createPushSelect", "getSelectedSource",
               "getSelectedPushSource", "getSelectedSkeletons", "getSelectedSkeletonModels"}
  THEN {l.args[1]}
  ELSE {}

\* C17 as stated: the operation that follows remove(P), unless it is add(P),
\* calls no method of P and does not return P.
C17_NoCallAfterRemove ==
  [][(last.op = "remove" /\ last'.op \in Mediations)
     => LET P == last.args[1]
        IN /\ \A i \in 1..Len(calls') : calls'[i].target # P
           /\ last'.op \in Lookups => ret' # P]_vars

\* C17, amended: remove(P) leaves P out of the table; and as long as P is
\* out of the table, every operation other than add(P) leaves it out, calls no
\* method of P other than getName of a P that the caller itself passes to the
\* operation, and does not return P.
C17_RemovedIsLeftAlone ==
  [][\A P \in Sources :
       /\ (last'.op = "remove" /\ last'.args[1] = P) => ~Registered(sources', P)
       /\ (~Registered(sources, P) /\ ~(last'.op = "add" /\ last'.args[1] = P))
          => /\ ~Registered(sources', P)
             /\ \A i \in 1..Len(calls') :
                  calls'[i].target = P
                  => (calls'[i].method = "getName" /\ P \in PassedSource(last'))
             /\ last'.op \in Lookups => ret' # P]_vars

\* remove(P) of a registered P has returned and other sources are registered
C17_Witness ==
  /\ last.op = "remove"
  /\ last.args[2]
  /\ ~raised
  /\ ~Registered(sources, last.args[1])
  /\ Len(sources) >= 1
  /\ Len(controls) >= 1
====
